---------------------------- MODULE Spec2Model ----------------------------
(***************************************************************************)
(* Model of scripts/gmail_imap_fetch.py: the incremental mailbox pipeline. *)
(* One invocation of main() is a run: it loads the watermark record        *)
(* (state file), opens an IMAP session, searches "UID last_uid+1:*",       *)
(* fetches the last `limit` candidates, filters them by subject, writes    *)
(* the record, logs out and prints the items.  Runs are sequential.        *)
(* The remote mailbox, the file system and the command line are the        *)
(* environment: their answers are drawn from small sets.                   *)
(* SpecDecode takes one call of _msg_text alone, on message bodies spelled *)
(* out token by token; SpecOverlap lets two invocations of main() overlap  *)
(* on one state file.                                                      *)
(***************************************************************************)
EXTENDS Integers, Sequences, FiniteSets

\* Largest message identifier (UID) the remote mailbox hands out.
MaxUid == 3
\* Largest value of --limit that a run is started with.
MaxLimit == 2

VARIABLES
    record,        \* content of the state file (--state-file)
    mailbox,       \* UIDs of the messages present in the remote INBOX
    pc,            \* position of the current run in main()
    args,          \* parsed command line: limit, subject_contains
    state,         \* main's `state` dict
    last_uid,      \* main's `last_uid`
    session,       \* the IMAP connection M: "none", "open", "closed"
    uids,          \* main's `uids` after the sort
    i,             \* position of the for loop in uids[-limit:]
    items,         \* main's `items`
    max_uid_seen,  \* main's `max_uid_seen`
    printed,       \* whether the output document was printed
    failure,       \* the step whose exception ended the run, or "none"
    startRecord,   \* history: the record as it was when the run started
    fetchLog,      \* history: one entry per FETCH issued by the run
    events,        \* history: what the run did to the file and the session
    prev,          \* history: the previous run, when its search was empty
    skipped,       \* history: candidates that successful runs left unfetched
    mail,          \* the message handed to _msg_text
    at,            \* position of the call of _msg_text
    body,          \* what _msg_text returned
    footer_in,     \* history: the text _msg_text passed to _strip_footer
    run            \* two overlapping runs: each one's position and locals

\* What lies aside of the sequential runs of main(): one call of _msg_text
\* taken alone, and two runs of main() that overlap.
aside == << mail, at, body, footer_in, run >>

vars == << record, mailbox, pc, args, state, last_uid, session, uids, i,
           items, max_uid_seen, printed, failure, startRecord, fetchLog,
           events, prev, skipped, aside >>

----------------------------------------------------------------------------
(* Integers and sequences *)

max(a, b) == IF a >= b THEN a ELSE b

\* Python's max() of a non-empty list of integers.
max_of(s) == CHOOSE m \in { s[k] : k \in DOMAIN s } :
                 \A k \in DOMAIN s : s[k] <= m

Range(s) == { s[k] : k \in DOMAIN s }

\* The sequences that list every element of the set S once, in any order.
Orderings(S) == { s \in [1..Cardinality(S) -> S] : Range(s) = S }

\* list.sort() on a list of distinct integers: ascending order.
sort(s) == CHOOSE t \in Orderings(Range(s)) :
               \A a, b \in DOMAIN t : a < b => t[a] < t[b]

\* Python's s[start:] for any integer start: a negative start counts from
\* the end, and the result is clamped to the list.  Note that s[-0:] is s[0:].
SliceFrom(s, start) ==
    LET n == Len(s)
        b == IF start < 0 THEN max(n + start, 0)
             ELSE IF start > n THEN n ELSE start
    IN  SubSeq(s, b + 1, n)

----------------------------------------------------------------------------
(* The state file and json values *)

\* A json value stored under 'last_uid' (or its absence).
JMissing   == [t |-> "missing", v |-> 0]
JNull      == [t |-> "null", v |-> 0]
JInt(n)    == [t |-> "int", v |-> n]
JNumStr(n) == [t |-> "numstr", v |-> n]   \* a string of digits, such as "2"
JBadStr    == [t |-> "badstr", v |-> 0]   \* a string int() rejects, such as "abc"

JsonValues == { JMissing, JNull, JBadStr, JNumStr(1) }
                  \cup { JInt(n) : n \in 0..MaxUid }

\* The state file: absent, text json.loads rejects (empty and cut-off text
\* included), json that is not an object, or an object.
FileAbsent  == [kind |-> "absent", last_uid |-> JMissing, updatedAt |-> FALSE]
FileGarbage == [kind |-> "garbage", last_uid |-> JMissing, updatedAt |-> FALSE]
FileNonDict == [kind |-> "nondict", last_uid |-> JMissing, updatedAt |-> FALSE]
FileDict(v, u) == [kind |-> "dict", last_uid |-> v, updatedAt |-> u]

Records == { FileAbsent, FileGarbage, FileNonDict }
              \cup { FileDict(v, TRUE) : v \in JsonValues }

\* main's `state` after lines 151-156: {} unless the file exists and parses.
\* Every Exception of read_text/json.loads is caught; what json.loads returns
\* is kept whatever its type.
load_state(rec) ==
    IF rec.kind \in {"absent", "garbage"}
    THEN [isdict |-> TRUE, last_uid |-> JMissing, updatedAt |-> FALSE]
    ELSE IF rec.kind = "nondict"
    THEN [isdict |-> FALSE, last_uid |-> JMissing, updatedAt |-> FALSE]
    ELSE [isdict |-> TRUE, last_uid |-> rec.last_uid, updatedAt |-> rec.updatedAt]

\* Line 157, int(state.get('last_uid') or 0), raises: AttributeError when
\* state has no .get, ValueError when int() rejects the string.
load_raises(st) == ~st.isdict \/ st.last_uid.t = "badstr"

\* Line 157 when it does not raise.
load_last_uid(st) ==
    IF st.last_uid.t \in {"int", "numstr"} THEN st.last_uid.v ELSE 0

\* Line 210: json.dumps(state) as the new content of the file.
dump_state(st) == FileDict(st.last_uid, st.updatedAt)

----------------------------------------------------------------------------
(* Strings, headers and messages *)

\* A string is a sequence of characters; "?" inside the bytes of an encoded
\* header chunk stands for a byte sequence that is invalid in its charset.
lower_char(c) == IF c = "I" THEN "i" ELSE IF c = "N" THEN "n"
                 ELSE IF c = "X" THEN "x" ELSE c

\* str.lower()
lower(s) == [k \in DOMAIN s |-> lower_char(s[k])]

\* Python's `needle in hay` on strings.
contains(hay, needle) ==
    \E b \in 0..(Len(hay) - Len(needle)) :
        SubSeq(hay, b + 1, b + Len(needle)) = needle

\* The codecs Python knows; any other charset name raises LookupError.
KnownCharsets == {"none", "utf-8"}

\* One (chunk, enc) pair of email.header.decode_header: a str chunk, or
\* bytes with the charset the header declared ("none" when it declared none).
StrChunk(text)        == [bytes |-> FALSE, enc |-> "none", text |-> text]
BytesChunk(enc, text) == [bytes |-> TRUE, enc |-> enc, text |-> text]

\* A header as msg.get() returns it: absent (None), or a value that
\* decode_header splits into chunks.
NoHeader        == [present |-> FALSE, chunks |-> << >>]
Header(chunks)  == [present |-> TRUE, chunks |-> chunks]

\* bytes.decode(enc or 'utf-8', errors='ignore') for a known codec: the
\* invalid bytes are dropped.
bytes_decode(text) == SelectSeq(text, LAMBDA c : c # "?")

\* Line 48 raises LookupError on a chunk whose charset Python does not know.
decode_header_raises(val) ==
    /\ val.present
    /\ \E k \in DOMAIN val.chunks :
          val.chunks[k].bytes /\ val.chunks[k].enc \notin KnownCharsets

RECURSIVE decode_chunks(_)
decode_chunks(chunks) ==
    IF chunks = << >> THEN << >>
    ELSE (IF Head(chunks).bytes THEN bytes_decode(Head(chunks).text)
          ELSE Head(chunks).text) \o decode_chunks(Tail(chunks))

\* _decode_header when it does not raise: '' for no header, else the chunks
\* decoded and concatenated in order.
_decode_header(val) ==
    IF ~val.present \/ val.chunks = << >> THEN << >>
    ELSE decode_chunks(val.chunks)

\* One MIME part as _msg_text reads it.
Part(ctype, attachment, charset) ==
    [ctype |-> ctype, attachment |-> attachment, charset |-> charset]

\* _msg_text raises LookupError at payload.decode(charset, ...) (lines 117
\* and 133) on a part it decodes whose declared charset is unknown; parts
\* with an attachment disposition are skipped before decoding.
msg_text_raises(msg) ==
    \E k \in DOMAIN msg.parts :
        /\ msg.multipart => ~msg.parts[k].attachment
        /\ msg.parts[k].charset \notin KnownCharsets

\* The raw messages a FETCH may return.
MsgInvoice ==
    [name |-> "invoice", Subject |-> Header(<< StrChunk(<<"I", "n">>) >>),
     From |-> Header(<< StrChunk(<<"p">>) >>), multipart |-> FALSE,
     parts |-> << Part("text/plain", FALSE, "utf-8") >>]
MsgNewsletter ==
    [name |-> "newsletter",
     Subject |-> Header(<< BytesChunk("utf-8", <<"x", "?">>) >>),
     From |-> Header(<< StrChunk(<<"p">>) >>), multipart |-> TRUE,
     parts |-> << Part("text/html", FALSE, "none"),
                  Part("application/pdf", TRUE, "x-unknown") >>]
MsgBadSubject ==
    [name |-> "badsubject",
     Subject |-> Header(<< StrChunk(<<"I", "n">>),
                           BytesChunk("x-unknown", <<"x">>) >>),
     From |-> Header(<< StrChunk(<<"p">>) >>), multipart |-> FALSE,
     parts |-> << Part("text/plain", FALSE, "utf-8") >>]
MsgBadBody ==
    [name |-> "badbody", Subject |-> Header(<< StrChunk(<<"i", "N">>) >>),
     From |-> Header(<< StrChunk(<<"p">>) >>), multipart |-> TRUE,
     parts |-> << Part("text/plain", FALSE, "x-unknown") >>]
MsgBadFrom ==
    [name |-> "badfrom", Subject |-> NoHeader,
     From |-> Header(<< BytesChunk("unknown-8bit", <<"p", "?">>) >>),
     multipart |-> FALSE,
     parts |-> << Part("text/plain", FALSE, "none") >>]

Messages == { MsgInvoice, MsgNewsletter, MsgBadSubject, MsgBadBody, MsgBadFrom }

\* Lines 185-187: the message is kept when no term is configured or some
\* term occurs in the subject, both lower-cased.
subject_kept(subject_contains, subj) ==
    \/ subject_contains = << >>
    \/ \E k \in DOMAIN subject_contains :
          contains(lower(subj), lower(subject_contains[k]))

\* The values of --subject-contains (repeatable) and --limit a run may get.
TermIn == <<"i", "n">>
TermX  == <<"X">>
SubjectFilters == { << >>, << TermIn >>, << TermIn, TermX >> }
Limits == 0..MaxLimit
Args == [limit : Limits, subject_contains : SubjectFilters]

----------------------------------------------------------------------------
(* The remote mailbox *)

\* The messages a UID SEARCH with the range "n:*" considers (RFC 3501):
\* "*" is the largest UID in the mailbox and the range covers the UIDs
\* between its two ends in either order, so it holds the last message even
\* when n is larger than every UID.
uid_range(n, mbox) ==
    IF mbox = {} THEN {}
    ELSE LET top == CHOOSE m \in mbox : \A u \in mbox : u <= m
         IN  { u \in mbox : /\ u >= (IF n <= top THEN n ELSE top)
                            /\ u <= max(n, top) }

\* Line 167: the UID range of the search criteria.
search_from(last) == last + 1

----------------------------------------------------------------------------
(* Body text: _strip_html, _looks_like_html, _strip_footer, _msg_text *)

\* Longest payload of a message that is not multipart, and most parts of one
\* that is.
MaxTextLen == 4
MaxParts == 2

\* A body text is a sequence of tokens: "w" is a word that matches no footer
\* marker, "m" one that matches (such as "unsubscribe", line 80), " " and
\* "\n" are whitespace, "</b>" is a closing tag.
Tokens == {"w", "m", " ", "\n", "</b>"}
isspace(c) == c \in {" ", "\n"}

\* str.lstrip, str.rstrip, str.strip.
RECURSIVE lstrip(_)
lstrip(t) == IF t # << >> /\ isspace(Head(t)) THEN lstrip(Tail(t)) ELSE t
RECURSIVE rstrip(_)
rstrip(t) ==
    IF t # << >> /\ isspace(t[Len(t)]) THEN rstrip(SubSeq(t, 1, Len(t) - 1))
    ELSE t
strip(t) == lstrip(rstrip(t))

\* str.splitlines: a final line break opens no further line.
RECURSIVE splitlines(_)
splitlines(t) ==
    IF t = << >> THEN << >>
    ELSE IF \E k \in DOMAIN t : t[k] = "\n"
         THEN LET k == CHOOSE j \in DOMAIN t :
                           /\ t[j] = "\n"
                           /\ \A h \in 1..(j - 1) : t[h] # "\n"
              IN  << SubSeq(t, 1, k - 1) >>
                      \o splitlines(SubSeq(t, k + 1, Len(t)))
         ELSE << t >>

\* '\n'.join(lines).
RECURSIVE join(_)
join(lines) ==
    IF lines = << >> THEN << >>
    ELSE IF Len(lines) = 1 THEN lines[1]
    ELSE lines[1] \o << "\n" >> \o join(Tail(lines))

\* Lines 57-65: every tag becomes a blank, every run of whitespace one
\* blank, and the ends are stripped.
RECURSIVE collapse(_)
collapse(t) ==
    IF t = << >> THEN << >>
    ELSE IF isspace(Head(t))
         THEN << " " >> \o collapse(lstrip(t))
         ELSE << Head(t) >> \o collapse(Tail(t))
_strip_html(raw) ==
    strip(collapse([k \in DOMAIN raw |->
                       IF raw[k] = "</b>" THEN " " ELSE raw[k]]))

\* Lines 68-70: of the tokens, only the closing tag holds '</'.
_looks_like_html(t) == \E k \in DOMAIN t : t[k] = "</b>"

\* Line 94: rx.search(l.strip()).
rx_search(l) == \E k \in DOMAIN l : l[k] = "m"

\* Lines 100-101: while lines and len(lines[-1].strip()) == 0: lines.pop().
RECURSIVE pop_empty(_)
pop_empty(lines) ==
    IF lines # << >> /\ strip(lines[Len(lines)]) = << >>
    THEN pop_empty(SubSeq(lines, 1, Len(lines) - 1))
    ELSE lines

\* Variant of _strip_footer that cuts at the first marker line wherever it is.
_strip_footer_from_zero(t) ==
    IF t = << >> THEN << >>
    ELSE LET lines == [k \in DOMAIN splitlines(t) |-> rstrip(splitlines(t)[k])]
             hits == { k \in DOMAIN lines : rx_search(lines[k]) }
             cut_idx == IF hits = {} THEN 0
                        ELSE CHOOSE k \in hits : \A h \in hits : k <= h
             kept == IF cut_idx # 0
                     THEN SubSeq(lines, 1, cut_idx - 1) ELSE lines
         IN  strip(join(pop_empty(kept)))

\* Lines 73-102.  cut_idx counts from 1 here (0: None), so the source's
\* cut_idx > 0 is cut_idx > 1.
_strip_footer(t) ==
    IF t = << >> THEN << >>
    ELSE LET lines == [k \in DOMAIN splitlines(t) |-> rstrip(splitlines(t)[k])]
             hits == { k \in DOMAIN lines : rx_search(lines[k]) }
             cut_idx == IF hits = {} THEN 0
                        ELSE CHOOSE k \in hits : \A h \in hits : k <= h
             kept == IF cut_idx # 0 /\ cut_idx > 1
                     THEN SubSeq(lines, 1, cut_idx - 1) ELSE lines
         IN  strip(join(pop_empty(kept)))

\* Variant of first_text that does not skip attachments.
first_text_any(m, ctype) ==
    LET found == { k \in DOMAIN m.parts : m.parts[k].ctype = ctype }
    IN  IF found = {} THEN << >>
        ELSE << bytes_decode(m.parts[CHOOSE k \in found :
                                         \A h \in found : k <= h].payload) >>

\* Lines 108-121: what the walk leaves in `plain` (ctype "text/plain") and in
\* `html` (ctype "text/html"): << >> for None, else the decoded payload of
\* the first part of that type whose disposition is not an attachment.
first_text(m, ctype) ==
    LET found == { k \in DOMAIN m.parts : /\ ~m.parts[k].attachment
                                          /\ m.parts[k].ctype = ctype }
    IN  IF found = {} THEN << >>
        ELSE << bytes_decode(m.parts[CHOOSE k \in found :
                                         \A h \in found : k <= h].payload) >>

\* Lines 124-126 and 134-136: the argument of _strip_footer for a text that
\* was stripped.
reduced(t) == IF _looks_like_html(t) THEN _strip_html(t) ELSE t

\* Lines 107-136: the argument _msg_text passes to _strip_footer; << >> when
\* it returns '' at line 129 without calling it.
footer_arg(m) ==
    IF m.multipart
    THEN LET plain == first_text(m, "text/plain")
             html == first_text(m, "text/html")
         IN  IF plain # << >> /\ plain[1] # << >>
             THEN << reduced(strip(plain[1])) >>
             ELSE IF html # << >> /\ html[1] # << >>
                  THEN << _strip_html(html[1]) >>
                  ELSE << >>
    ELSE << reduced(strip(bytes_decode(m.parts[1].payload))) >>

\* Lines 105-136, when no decode raises.
_msg_text(m) ==
    IF footer_arg(m) = << >> THEN << >> ELSE _strip_footer(footer_arg(m)[1])

\* The sequences over S of at most n elements.
SeqsUpTo(S, n) == UNION { [1..k -> S] : k \in 0..n }

\* The payloads of the parts of multipart messages, and the messages.
PartTexts == { << >>, << " " >>, << "w" >>, << "m" >>, << "</b>", "w" >> }
ContentTypes == {"text/plain", "text/html", "image/png"}
Charsets == {"utf-8", "x-unknown"}
MailPart(ctype, attachment, charset, payload) ==
    [ctype |-> ctype, attachment |-> attachment, charset |-> charset,
     payload |-> payload]
SingleMails ==
    { [multipart |-> FALSE,
       parts |-> << MailPart("text/plain", FALSE, c, t) >>] :
        c \in Charsets, t \in SeqsUpTo(Tokens, MaxTextLen) }
MultipartMails ==
    { [multipart |-> TRUE, parts |-> ps] :
        ps \in SeqsUpTo({ MailPart(ct, a, c, t) :
                            ct \in ContentTypes, a \in BOOLEAN,
                            c \in Charsets, t \in PartTexts }, MaxParts) }
Mails == SingleMails \cup MultipartMails

----------------------------------------------------------------------------
(* One run of main() *)

\* No previous run, or one that failed or had candidates.
NoPrev == [empty |-> FALSE, before |-> 0, out |-> << >>]

\* No message in hand.
NoMail == [multipart |-> FALSE, parts |-> << >>]

\* The two overlapping invocations of main(), and one that has not started.
Procs == {"first", "second"}

NoArgs == [limit |-> 0, subject_contains |-> << >>]
EmptyState == [isdict |-> TRUE, last_uid |-> JMissing, updatedAt |-> FALSE]
NoRun == [pc |-> "idle", state |-> EmptyState, last_uid |-> 0, uids |-> << >>,
          max_uid_seen |-> 0]

Init ==
    /\ record \in Records
    /\ mailbox = {}
    /\ pc = "idle"
    /\ args = NoArgs
    /\ state = EmptyState
    /\ last_uid = 0
    /\ session = "none"
    /\ uids = << >>
    /\ i = 1
    /\ items = << >>
    /\ max_uid_seen = 0
    /\ printed = FALSE
    /\ failure = "none"
    /\ startRecord = record
    /\ fetchLog = << >>
    /\ events = << >>
    /\ prev = NoPrev
    /\ skipped = {}
    /\ mail = NoMail
    /\ at = "idle"
    /\ body = << >>
    /\ footer_in = << >>
    /\ run = [p \in Procs |-> NoRun]

\* The run did `e`: "load" (the state file is consulted, lines 152-154),
\* "open", "search", "fetch", "save" (the state file is overwritten),
\* "close" (logout) or "print".
Did(e) == events' = Append(events, e)

\* An uncaught exception at `step`: the process dies where it stands.
Raise(step) ==
    /\ pc' = "failed"
    /\ failure' = step

\* Lines 140-157: parse the command line, read the state file, take last_uid.
Load(a) ==
    /\ pc = "idle"
    /\ args' = a
    /\ startRecord' = record
    /\ state' = load_state(record)
    /\ IF load_raises(load_state(record))
       THEN Raise("load") /\ UNCHANGED last_uid
       ELSE /\ last_uid' = load_last_uid(load_state(record))
            /\ pc' = "loaded"
            /\ UNCHANGED failure
    /\ UNCHANGED << record, mailbox, session, uids, i, items, max_uid_seen,
                    printed, fetchLog >>
    /\ Did("load")
    /\ UNCHANGED << prev, skipped, aside >>

\* Lines 159-161: read the secret and connect.
Connect ==
    /\ pc = "loaded"
    /\ session' = "open"
    /\ pc' = "connected"
    /\ UNCHANGED << record, mailbox, args, state, last_uid, uids, i, items,
                    max_uid_seen, printed, failure, startRecord, fetchLog >>
    /\ Did("open")
    /\ UNCHANGED << prev, skipped, aside >>

ConnectRaises ==
    /\ pc = "loaded"
    /\ Raise("connect")
    /\ UNCHANGED << record, mailbox, args, state, last_uid, session, uids, i,
                    items, max_uid_seen, printed, startRecord, fetchLog >>
    /\ UNCHANGED << events, prev, skipped, aside >>

\* Line 162: M.login.
Login ==
    /\ pc = "connected"
    /\ pc' = "authed"
    /\ UNCHANGED << record, mailbox, args, state, last_uid, session, uids, i,
                    items, max_uid_seen, printed, failure, startRecord,
                    fetchLog >>
    /\ UNCHANGED << events, prev, skipped, aside >>

LoginRaises ==
    /\ pc = "connected"
    /\ Raise("login")
    /\ UNCHANGED << record, mailbox, args, state, last_uid, session, uids, i,
                    items, max_uid_seen, printed, startRecord, fetchLog >>
    /\ UNCHANGED << events, prev, skipped, aside >>

\* Line 163: M.select.
Select ==
    /\ pc = "authed"
    /\ pc' = "selected"
    /\ UNCHANGED << record, mailbox, args, state, last_uid, session, uids, i,
                    items, max_uid_seen, printed, failure, startRecord,
                    fetchLog >>
    /\ UNCHANGED << events, prev, skipped, aside >>

SelectRaises ==
    /\ pc = "authed"
    /\ Raise("select")
    /\ UNCHANGED << record, mailbox, args, state, last_uid, session, uids, i,
                    items, max_uid_seen, printed, startRecord, fetchLog >>
    /\ UNCHANGED << events, prev, skipped, aside >>

\* Lines 170-176 once the SEARCH has answered `reply`, the list of UIDs of
\* data[0] ([] when typ is not OK or the data is empty).
Searched(reply) ==
    /\ uids' = sort(reply)
    /\ items' = << >>
    /\ max_uid_seen' = last_uid
    /\ i' = 1
    /\ pc' = "fetching"
    /\ UNCHANGED << record, mailbox, args, state, last_uid, session, printed,
                    failure, startRecord, fetchLog >>
    /\ Did("search")
    /\ UNCHANGED << prev, skipped, aside >>

\* Lines 167-169: the server answers OK with the matching messages of the
\* range, in the order it likes.
Search(reply) ==
    /\ pc = "selected"
    /\ Range(reply) \subseteq uid_range(search_from(last_uid), mailbox)
    /\ Searched(reply)

\* The server answers NO: typ != 'OK'.
SearchNo ==
    /\ pc = "selected"
    /\ Searched(<< >>)

SearchRaises ==
    /\ pc = "selected"
    /\ Raise("search")
    /\ UNCHANGED << record, mailbox, args, state, last_uid, session, uids, i,
                    items, max_uid_seen, printed, startRecord, fetchLog >>
    /\ Did("search")
    /\ UNCHANGED << prev, skipped, aside >>

\* Line 178: the candidates the loop visits, uids[-args.limit:].
Window == SliceFrom(uids, 0 - args.limit)

LogEntry(uid, res, name) == [uid |-> uid, res |-> res, msg |-> name]

\* Variant of FetchRaises that saves the state on the way out.
FetchRaises_saving ==
    /\ pc = "fetching"
    /\ i <= Len(Window)
    /\ Raise("fetch")
    /\ fetchLog' = Append(fetchLog, LogEntry(Window[i], "error", "none"))
    /\ record' = FileDict(JInt(max(max_uid_seen, Window[i])), TRUE)
    /\ UNCHANGED << mailbox, args, state, last_uid, session, uids, i,
                    items, max_uid_seen, printed, startRecord >>
    /\ Did("fetch")
    /\ UNCHANGED << prev, skipped, aside >>

\* Line 179 raises (connection lost, BAD answer).
FetchRaises ==
    /\ pc = "fetching"
    /\ i <= Len(Window)
    /\ Raise("fetch")
    /\ fetchLog' = Append(fetchLog, LogEntry(Window[i], "error", "none"))
    /\ UNCHANGED << record, mailbox, args, state, last_uid, session, uids, i,
                    items, max_uid_seen, printed, startRecord >>
    /\ Did("fetch")
    /\ UNCHANGED << prev, skipped, aside >>

\* Variant of FetchNotFound that treats the missing message as fatal.
FetchNotFound_fatal ==
    /\ pc = "fetching"
    /\ i <= Len(Window)
    /\ Window[i] \notin mailbox
    /\ Raise("fetch")
    /\ fetchLog' = Append(fetchLog, LogEntry(Window[i], "notfound", "none"))
    /\ UNCHANGED << record, mailbox, args, state, last_uid, session, uids, i,
                    items, max_uid_seen, printed, startRecord >>
    /\ Did("fetch")
    /\ UNCHANGED << prev, skipped, aside >>

\* Lines 180-181: the message is gone (typ != 'OK' or no data): continue.
FetchNotFound ==
    /\ pc = "fetching"
    /\ i <= Len(Window)
    /\ Window[i] \notin mailbox
    /\ i' = i + 1
    /\ fetchLog' = Append(fetchLog, LogEntry(Window[i], "notfound", "none"))
    /\ UNCHANGED << record, mailbox, pc, args, state, last_uid, session, uids,
                    items, max_uid_seen, printed, failure, startRecord >>
    /\ Did("fetch")
    /\ UNCHANGED << prev, skipped, aside >>

\* Lines 182-204 on the raw message `msg`: decode the subject, apply the
\* subject filter, decode the sender and the body, append the item.  The
\* date is parsed inside try/except (lines 190-195) and cannot end the run;
\* of the item only the uid and the subject are kept here.
FetchOk(msg) ==
    /\ pc = "fetching"
    /\ i <= Len(Window)
    /\ Window[i] \in mailbox
    /\ fetchLog' = Append(fetchLog, LogEntry(Window[i], "ok", msg.name))
    /\ IF decode_header_raises(msg.Subject)
       THEN Raise("decode") /\ UNCHANGED << i, items, max_uid_seen >>
       ELSE IF ~subject_kept(args.subject_contains, _decode_header(msg.Subject))
       THEN /\ i' = i + 1
            /\ UNCHANGED << pc, failure, items, max_uid_seen >>
       ELSE IF decode_header_raises(msg.From) \/ msg_text_raises(msg)
       THEN Raise("decode") /\ UNCHANGED << i, items, max_uid_seen >>
       ELSE /\ items' = Append(items, [uid |-> Window[i],
                                       subject |-> _decode_header(msg.Subject)])
            /\ max_uid_seen' = max(max_uid_seen, Window[i])
            /\ i' = i + 1
            /\ UNCHANGED << pc, failure >>
    /\ UNCHANGED << record, mailbox, args, state, last_uid, session, uids,
                    printed, startRecord >>
    /\ Did("fetch")
    /\ UNCHANGED << prev, skipped, aside >>

\* Variant of new_last_uid that forgets the candidates that were not kept.
new_last_uid_kept_only(seen, candidates) == seen

\* Line 208: the new watermark when candidates were seen.
new_last_uid(seen, candidates) == max(seen, max_of(candidates))

\* Variant of final_state that stores max(uids, default=0): an empty search
\* resets the watermark.
final_state_reset ==
    [isdict |-> TRUE,
     last_uid |-> IF uids # << >> THEN JInt(new_last_uid(max_uid_seen, uids))
                  ELSE JInt(0),
     updatedAt |-> TRUE]

\* Lines 207-209: main's `state` as it is serialised.
final_state ==
    [isdict |-> TRUE,
     last_uid |-> IF uids # << >> THEN JInt(new_last_uid(max_uid_seen, uids))
                  ELSE state.last_uid,
     updatedAt |-> TRUE]

\* Line 210: write_text replaces the content of the file.
Write ==
    /\ pc = "fetching"
    /\ i > Len(Window)
    /\ state' = final_state
    /\ record' = dump_state(final_state)
    /\ pc' = "written"
    /\ UNCHANGED << mailbox, args, last_uid, session, uids, i, items,
                    max_uid_seen, printed, failure, startRecord, fetchLog >>
    /\ Did("save")
    /\ UNCHANGED << prev, skipped, aside >>

\* write_text raises when the file cannot be opened for writing: the file
\* keeps its content.
WriteRaisesAtOpen ==
    /\ pc = "fetching"
    /\ i > Len(Window)
    /\ state' = final_state
    /\ Raise("write")
    /\ UNCHANGED << record, mailbox, args, last_uid, session, uids, i, items,
                    max_uid_seen, printed, startRecord, fetchLog >>
    /\ UNCHANGED << events, prev, skipped, aside >>

\* write_text opens the file with mode 'w', which empties it, and raises
\* while writing or flushing (disk full, quota, I/O error): the file is left
\* empty or cut off.
WriteRaisesAfterTruncate ==
    /\ pc = "fetching"
    /\ i > Len(Window)
    /\ state' = final_state
    /\ record' = FileGarbage
    /\ Raise("write")
    /\ UNCHANGED << mailbox, args, last_uid, session, uids, i, items,
                    max_uid_seen, printed, startRecord, fetchLog >>
    /\ Did("save")
    /\ UNCHANGED << prev, skipped, aside >>

\* Variant of Logout that touches the state file once more after logging out.
Logout_resaving ==
    /\ pc = "written"
    /\ session' = "closed"
    /\ pc' = "closed"
    /\ events' = events \o << "close", "save" >>
    /\ UNCHANGED << record, mailbox, args, state, last_uid, uids, i, items,
                    max_uid_seen, printed, failure, startRecord, fetchLog >>
    /\ UNCHANGED << prev, skipped, aside >>

\* Line 212: M.logout.
Logout ==
    /\ pc = "written"
    /\ session' = "closed"
    /\ pc' = "closed"
    /\ UNCHANGED << record, mailbox, args, state, last_uid, uids, i, items,
                    max_uid_seen, printed, failure, startRecord, fetchLog >>
    /\ Did("close")
    /\ UNCHANGED << prev, skipped, aside >>

LogoutRaises ==
    /\ pc = "written"
    /\ Raise("logout")
    /\ UNCHANGED << record, mailbox, args, state, last_uid, session, uids, i,
                    items, max_uid_seen, printed, startRecord, fetchLog >>
    /\ UNCHANGED << events, prev, skipped, aside >>

\* Line 214: print the output document.
PrintItems ==
    /\ pc = "closed"
    /\ printed' = TRUE
    /\ pc' = "done"
    /\ UNCHANGED << record, mailbox, args, state, last_uid, session, uids, i,
                    items, max_uid_seen, failure, startRecord, fetchLog >>
    /\ Did("print")
    /\ UNCHANGED << prev, skipped, aside >>

\* The process has ended; the next invocation starts from the state file.
EndRun ==
    /\ pc \in {"done", "failed"}
    /\ pc' = "idle"
    /\ args' = NoArgs
    /\ state' = EmptyState
    /\ last_uid' = 0
    /\ session' = "none"
    /\ uids' = << >>
    /\ i' = 1
    /\ items' = << >>
    /\ max_uid_seen' = 0
    /\ printed' = FALSE
    /\ failure' = "none"
    /\ startRecord' = record
    /\ fetchLog' = << >>
    /\ events' = << >>
    /\ UNCHANGED << record, mailbox, aside >>

Exit ==
    /\ EndRun
    /\ UNCHANGED << prev, skipped, aside >>

\* The end of a run, remembering what a run with an empty search loaded and
\* printed.
ExitRemembering ==
    /\ EndRun
    /\ prev' = IF pc = "done" /\ uids = << >>
               THEN [empty |-> TRUE, before |-> last_uid, out |-> items]
               ELSE NoPrev
    /\ UNCHANGED skipped

\* The end of a run, recording the candidates a successful run did not fetch.
ExitRecording ==
    /\ EndRun
    /\ skipped' = IF pc = "done"
                  THEN skipped \cup (Range(uids) \ Range(Window))
                  ELSE skipped
    /\ UNCHANGED prev

----------------------------------------------------------------------------
(* The environment: mail arrives and is deleted *)

\* A message arrives; the server gives it a UID above those in the mailbox.
\* A run sees the mailbox only through its SEARCH and FETCH commands, so
\* arrivals are taken between runs and deletions also inside the fetch loop.
Deliver(u) ==
    /\ pc = "idle"
    /\ \A v \in mailbox : v < u
    /\ mailbox' = mailbox \cup {u}
    /\ UNCHANGED << record, pc, args, state, last_uid, session, uids, i, items,
                    max_uid_seen, printed, failure, startRecord, fetchLog >>
    /\ UNCHANGED << events, prev, skipped, aside >>

\* A message is deleted (also between the search and its fetch).
Expunge(u) ==
    /\ pc \in {"idle", "fetching"}
    /\ u \in mailbox
    /\ mailbox' = mailbox \ {u}
    /\ UNCHANGED << record, pc, args, state, last_uid, session, uids, i, items,
                    max_uid_seen, printed, failure, startRecord, fetchLog >>
    /\ UNCHANGED << events, prev, skipped, aside >>

Uids == 1..MaxUid
SearchReplies == UNION { Orderings(S) : S \in SUBSET Uids }

Next ==
    \/ \E a \in Args : Load(a)
    \/ Connect
    \/ ConnectRaises
    \/ Login
    \/ LoginRaises
    \/ Select
    \/ SelectRaises
    \/ \E reply \in SearchReplies : Search(reply)
    \/ SearchNo
    \/ SearchRaises
    \/ FetchRaises
    \/ FetchNotFound
    \/ \E msg \in Messages : FetchOk(msg)
    \/ Write
    \/ WriteRaisesAtOpen
    \/ WriteRaisesAfterTruncate
    \/ Logout
    \/ LogoutRaises
    \/ PrintItems
    \/ Exit
    \/ \E u \in Uids : Deliver(u)
    \/ \E u \in Uids : Expunge(u)

Spec == Init /\ [][Next]_vars

\* Every step of a run but the end of the process.
RunStep ==
    \/ \E a \in Args : Load(a)
    \/ Connect
    \/ ConnectRaises
    \/ Login
    \/ LoginRaises
    \/ Select
    \/ SelectRaises
    \/ \E reply \in SearchReplies : Search(reply)
    \/ SearchNo
    \/ SearchRaises
    \/ FetchRaises
    \/ FetchNotFound
    \/ \E msg \in Messages : FetchOk(msg)
    \/ Write
    \/ WriteRaisesAtOpen
    \/ WriteRaisesAfterTruncate
    \/ Logout
    \/ LogoutRaises
    \/ PrintItems
    \/ \E u \in Uids : Deliver(u)
    \/ \E u \in Uids : Expunge(u)

\* The same runs, with the previous run remembered.
NextTwice == RunStep \/ ExitRemembering
SpecTwice == Init /\ [][NextTwice]_vars

\* The same runs, with the unfetched candidates recorded.
NextRuns == RunStep \/ ExitRecording
SpecRuns == Init /\ [][NextRuns]_vars

----------------------------------------------------------------------------
(* One call of _msg_text *)

\* The variables of the sequential runs, which a call of _msg_text taken
\* alone and the overlapping runs leave as they are.
sequential == << pc, args, state, last_uid, session, uids, i, items,
                 max_uid_seen, printed, failure, startRecord, fetchLog,
                 events, prev, skipped >>

\* Line 195: msg = email.message_from_bytes(raw).
Receive ==
    /\ at = "idle"
    /\ mail' \in Mails
    /\ at' = "parsed"
    /\ UNCHANGED << body, footer_in, run, record, mailbox, sequential >>

\* Line 196: text = _msg_text(msg).
MsgText ==
    /\ at = "parsed"
    /\ IF msg_text_raises(mail)
       THEN /\ at' = "raised"
            /\ UNCHANGED << body, footer_in >>
       ELSE /\ at' = "returned"
            /\ body' = _msg_text(mail)
            /\ footer_in' = footer_arg(mail)
    /\ UNCHANGED << mail, run, record, mailbox, sequential >>

\* The next message.
Forget ==
    /\ at \in {"returned", "raised"}
    /\ at' = "idle"
    /\ mail' = NoMail
    /\ body' = << >>
    /\ footer_in' = << >>
    /\ UNCHANGED << run, record, mailbox, sequential >>

InitDecode == Init /\ record = FileAbsent
NextDecode ==
    \/ Receive
    \/ MsgText
    \/ Forget
SpecDecode == InitDecode /\ [][NextDecode]_vars

----------------------------------------------------------------------------
(* Two overlapping runs of main() on one state file and one mailbox *)

\* Lines 149-157 in run p, when line 157 does not raise.
LoadIn(p) ==
    /\ run[p].pc = "idle"
    /\ ~load_raises(load_state(record))
    /\ run' = [run EXCEPT ![p] =
                  [pc |-> "loaded", state |-> load_state(record),
                   last_uid |-> load_last_uid(load_state(record)),
                   uids |-> << >>, max_uid_seen |-> 0]]
    /\ UNCHANGED << mail, at, body, footer_in, record, mailbox, sequential >>

\* Lines 170-174: the UIDs of a search answer, whatever their order there,
\* after uids.sort().
RECURSIVE ascending(_)
ascending(S) ==
    IF S = {} THEN << >>
    ELSE LET least == CHOOSE m \in S : \A u \in S : m <= u
         IN  << least >> \o ascending(S \ {least})

\* Variant of ScanIn in which max_uid_seen starts from 0.
ScanIn_from_zero(p, found, kept) ==
    /\ run[p].pc = "loaded"
    /\ found \subseteq uid_range(search_from(run[p].last_uid), mailbox)
    /\ kept \in {{}, found}
    /\ run' = [run EXCEPT ![p].pc = "scanned",
                          ![p].uids = ascending(found),
                          ![p].max_uid_seen =
                              IF kept = {} THEN 0
                              ELSE CHOOSE m \in kept : \A u \in kept : u <= m]
    /\ UNCHANGED << mail, at, body, footer_in, record, mailbox, sequential >>

\* Lines 161-204 in run p with the default --limit, every fetch answered: the
\* search answers the messages `found`, the items of the messages in `kept`
\* (all of them, or none when the subject filter drops them) are appended.
ScanIn(p, found, kept) ==
    /\ run[p].pc = "loaded"
    /\ found \subseteq uid_range(search_from(run[p].last_uid), mailbox)
    /\ kept \in {{}, found}
    /\ run' = [run EXCEPT ![p].pc = "scanned",
                          ![p].uids = ascending(found),
                          ![p].max_uid_seen =
                              IF kept = {} THEN run[p].last_uid
                              ELSE max(run[p].last_uid,
                                       CHOOSE m \in kept : \A u \in kept : u <= m)]
    /\ UNCHANGED << mail, at, body, footer_in, record, mailbox, sequential >>

\* Lines 207-209 in a run with the locals r.
final_state_in(r) ==
    [isdict |-> TRUE,
     last_uid |-> IF r.uids # << >>
                  THEN JInt(new_last_uid(r.max_uid_seen, r.uids))
                  ELSE r.state.last_uid,
     updatedAt |-> TRUE]

\* Lines 206-214 in run p: the file is replaced, the run ends.
WriteIn(p) ==
    /\ run[p].pc = "scanned"
    /\ record' = dump_state(final_state_in(run[p]))
    /\ run' = [run EXCEPT ![p] = NoRun]
    /\ UNCHANGED << mail, at, body, footer_in, mailbox, sequential >>

\* Line 210 in run p: write_text fails after it emptied the file.
WriteRaisesIn(p) ==
    /\ run[p].pc = "scanned"
    /\ record' = FileGarbage
    /\ run' = [run EXCEPT ![p] = NoRun]
    /\ UNCHANGED << mail, at, body, footer_in, mailbox, sequential >>

\* Run p dies of an exception between line 157 and line 210.
RaisesIn(p) ==
    /\ run[p].pc \in {"loaded", "scanned"}
    /\ run' = [run EXCEPT ![p] = NoRun]
    /\ UNCHANGED << mail, at, body, footer_in, record, mailbox, sequential >>

\* The next message arrives.
DeliverNext == \E u \in Uids : u = Cardinality(mailbox) + 1 /\ Deliver(u)

NextOverlap ==
    \/ DeliverNext
    \/ \E p \in Procs : LoadIn(p)
    \/ \E p \in Procs, found \in SUBSET Uids, kept \in SUBSET Uids :
           ScanIn(p, found, kept)
    \/ \E p \in Procs : WriteIn(p)
    \/ \E p \in Procs : WriteRaisesIn(p)
    \/ \E p \in Procs : RaisesIn(p)
SpecOverlap == Init /\ [][NextOverlap]_vars

----------------------------------------------------------------------------
(* Properties *)

\* Whether a run can load the record, and the watermark it then loads.
Loadable(rec) == ~load_raises(load_state(rec))
Watermark(rec) == load_last_uid(load_state(rec))

Last(s) == s[Len(s)]
MsgNamed(name) == CHOOSE m \in Messages : m.name = name
AfterLoop == {"written", "closed", "done"}
Ended == {"done", "failed"}

\* C1: over sequential runs, successful or failed, the watermark the next
\* run would load never decreases: when a run has ended, the record yields a
\* watermark at least as large as the one the record yielded when it started.
C1_WatermarkNeverDecreases ==
    (pc \in Ended /\ Loadable(startRecord))
        => (Loadable(record) /\ Watermark(record) >= Watermark(startRecord))

\* C2: after a successful run whose search returned candidates, the persisted
\* watermark is the maximum of the starting watermark and the largest
\* candidate, whatever was filtered out or not found.
C2_WatermarkIsMaxCandidate ==
    (pc = "done" /\ uids # << >>)
        => (Loadable(record)
            /\ Watermark(record) = max(last_uid, max_of(uids)))

\* A successful run with candidates, one not found and one fetched but
\* filtered out, an empty output, and a watermark that advanced.
C2_Witness ==
    /\ pc = "done"
    /\ uids # << >>
    /\ items = << >>
    /\ \E k \in DOMAIN fetchLog : fetchLog[k].res = "notfound"
    /\ \E k \in DOMAIN fetchLog : fetchLog[k].res = "ok"
    /\ Watermark(record) > last_uid

\* C3: a failed run prints no output and does not leave the watermark
\* advanced (no run ends with the watermark advanced and nothing printed).
C3_FailedRunAdvancesNothing ==
    pc = "failed"
        => (/\ ~printed
            /\ Loadable(record) => Watermark(record) <= last_uid)

\* C4: an error raised by login, select, search or a fetch ends the run with
\* the record as it was, nothing printed, and the same watermark for a rerun.
C4_ErrorBeforeFinalizeKeepsRecord ==
    (pc = "failed" /\ failure \in {"login", "select", "search", "fetch"})
        => (/\ record = startRecord
            /\ ~printed
            /\ Watermark(record) = last_uid)

\* A run that kept an item and then lost the connection on a later fetch.
C4_Witness ==
    /\ pc = "failed"
    /\ failure = "fetch"
    /\ items # << >>
    /\ max_uid_seen > last_uid

\* C5: every run that opened the session has closed it when it ends.
C5_SessionClosedAtEnd ==
    (pc \in Ended /\ session # "none") => session = "closed"

\* C6: every item a run emits has an identifier above the watermark the run
\* loaded.
C6_EmittedAboveWatermark ==
    pc = "done" => \A k \in DOMAIN items : items[k].uid > last_uid

\* C7: with limit N >= 0, a run fetches the min(N, number of candidates)
\* largest candidates, in ascending order, and emits at most N items.
C7_FetchesLastN ==
    (pc \in AfterLoop /\ args.limit >= 0)
        => LET n == IF args.limit <= Len(uids) THEN args.limit ELSE Len(uids)
           IN  /\ Len(fetchLog) = n
               /\ \A k \in 1..n : fetchLog[k].uid = uids[Len(uids) - n + k]
               /\ \A a, b \in DOMAIN fetchLog :
                      a < b => fetchLog[a].uid < fetchLog[b].uid
               /\ Len(items) <= args.limit

\* Whether `term` occurs in `subj`, letters compared without case.
OccursCaseless(subj, term) ==
    \E b \in 0..(Len(subj) - Len(term)) :
        \A j \in 1..Len(term) : lower_char(subj[b + j]) = lower_char(term[j])

\* Whether the fetch logged as `e` returned a message whose subject holds
\* one of the configured terms (or no term is configured).
Qualifies(e) ==
    /\ e.res = "ok"
    /\ \/ args.subject_contains = << >>
       \/ \E t \in Range(args.subject_contains) :
             OccursCaseless(_decode_header(MsgNamed(e.msg).Subject), t)

\* C8: a NotFound fetch does not end the run and adds no item; the loop goes
\* on to every later candidate; and the output is exactly the fetched
\* messages whose subject qualifies, in fetch order.
C8_NotFoundIsSkipped ==
    /\ (pc = "failed" /\ failure \in {"fetch", "decode"})
           => Last(fetchLog).res # "notfound"
    /\ pc \in AfterLoop
           => /\ Len(fetchLog) = Len(Window)
              /\ \A k \in DOMAIN fetchLog : fetchLog[k].uid = Window[k]
              /\ [k \in DOMAIN items |-> items[k].uid]
                     = [k \in DOMAIN SelectSeq(fetchLog, Qualifies) |->
                            SelectSeq(fetchLog, Qualifies)[k].uid]

\* A successful run with a subject filter in which a candidate was not found,
\* a later one was fetched and kept, and another was fetched and left out.
C8_Witness ==
    /\ pc = "done"
    /\ args.subject_contains # << >>
    /\ \E k \in DOMAIN fetchLog :
          /\ fetchLog[k].res = "notfound"
          /\ \E j \in DOMAIN fetchLog : j > k /\ Qualifies(fetchLog[j])
    /\ \E k \in DOMAIN fetchLog :
          fetchLog[k].res = "ok" /\ ~Qualifies(fetchLog[k])
    /\ Len(items) = 1

\* C9: no run ends because a header or body of one message declares an
\* encoding that cannot be decoded.
C9_DecodeNeverAborts ==
    ~(pc = "failed" /\ failure = "decode")

\* C10: loading the watermark is never fatal, whatever the record holds.
C10_LoadNeverFatal ==
    ~(pc = "failed" /\ failure = "load")

\* C11: two successive runs whose searches report no candidates both print
\* an empty list, and the watermark loaded by the second run and the one the
\* record yields after it equal the watermark the first run loaded.
C11_EmptyDeltaIdempotent ==
    (pc = "done" /\ uids = << >> /\ prev.empty)
        => (/\ prev.out = << >>
            /\ items = prev.out
            /\ last_uid = prev.before
            /\ Loadable(record)
            /\ Watermark(record) = prev.before)

\* The second of two successful runs with empty searches, on a watermark
\* above zero and a mailbox that holds mail.
C11_Witness ==
    /\ pc = "done"
    /\ uids = << >>
    /\ prev.empty
    /\ prev.before > 0
    /\ mailbox # {}

\* The positions of the event `e` in the run's history.
When(e) == { k \in DOMAIN events : events[k] = e }

\* C14: a successful run consults the state file once, before it opens the
\* session, and overwrites it once, after its last fetch and before it logs
\* out and prints.
C14_ReadOnceWrittenOnce ==
    pc = "done"
        => (/\ Cardinality(When("load")) = 1
            /\ Cardinality(When("save")) = 1
            /\ Cardinality(When("open")) = 1
            /\ Cardinality(When("close")) = 1
            /\ Cardinality(When("print")) = 1
            /\ \A l \in When("load"), o \in When("open") : l < o
            /\ \A f \in When("fetch"), w \in When("save") : f < w
            /\ \A w \in When("save"), c \in When("close") : w < c
            /\ \A c \in When("close"), q \in When("print") : c < q)

\* A successful run that fetched two candidates.
C14_Witness ==
    /\ pc = "done"
    /\ Cardinality(When("fetch")) = 2
    /\ items # << >>

\* C16: with a limit N > 0 and more than N candidates, the candidates outside
\* the N most recent are not fetched in that run and lie at or below the
\* watermark persisted by the run; and a later run whose search answers only
\* identifiers above its watermark fetches none of them.
C16_SkippedNeverFetchedLater ==
    /\ (pc \in AfterLoop /\ args.limit > 0 /\ Len(uids) > args.limit)
           => \A u \in Range(uids) \ Range(Window) :
                  /\ \A k \in DOMAIN fetchLog : fetchLog[k].uid # u
                  /\ u <= Watermark(record)
    /\ (\A u \in Range(uids) : u > last_uid)
           => \A k \in DOMAIN fetchLog : fetchLog[k].uid \notin skipped

\* The line sequence of a body: its lines, each without trailing whitespace.
Cleaned(t) == [k \in DOMAIN splitlines(t) |-> rstrip(splitlines(t)[k])]

\* The position (from 1) of the first line holding a marker; 0 when none does.
FirstMarker(L) ==
    IF \E k \in DOMAIN L : "m" \in Range(L[k])
    THEN CHOOSE k \in DOMAIN L : /\ "m" \in Range(L[k])
                                 /\ \A h \in 1..(k - 1) : "m" \notin Range(L[h])
    ELSE 0

\* L without the empty lines at its end.
WithoutTrailingEmpty(L) ==
    LET full == { k \in DOMAIN L : L[k] # << >> }
    IN  IF full = {} THEN << >>
        ELSE SubSeq(L, 1, CHOOSE k \in full : \A h \in full : h <= k)

\* C12: when the first marker line of the text given to the footer
\* truncation is not the first line, the result is the lines before it
\* without their trailing empty lines; when it is the first line or no line
\* holds a marker, the result has every line of the text; a text that is one
\* marker line comes back as it was.
C12_FooterTruncation ==
    (at = "returned" /\ footer_in # << >>)
        => LET L == Cleaned(footer_in[1])
               k == FirstMarker(L)
           IN  /\ k > 1 => body = join(WithoutTrailingEmpty(SubSeq(L, 1, k - 1)))
               /\ k <= 1 => splitlines(body) = L
               /\ (Len(L) = 1 /\ k = 1) => body = footer_in[1]

\* A text cut at a marker line below the first, the empty line before the
\* marker dropped as well.
C12_Witness ==
    /\ at = "returned"
    /\ footer_in # << >>
    /\ FirstMarker(Cleaned(footer_in[1])) > 2
    /\ Len(splitlines(body)) < FirstMarker(Cleaned(footer_in[1])) - 1
    /\ body # << >>

\* The payload of the first part of `mail` of type `ctype` that is not an
\* attachment, in a sequence of its own; << >> when there is no such part.
FirstPart(ctype) ==
    LET S == { k \in DOMAIN mail.parts : /\ mail.parts[k].ctype = ctype
                                         /\ ~mail.parts[k].attachment }
    IN  IF S = {} THEN << >>
        ELSE << mail.parts[CHOOSE k \in S : \A h \in S : k <= h].payload >>

\* The body a plain-text payload and an HTML payload normalise to.
FromPlain(t) == _strip_footer(reduced(strip(t)))
FromHtml(t) == _strip_footer(_strip_html(t))

\* C13 as stated: the body of a multipart message comes from its first
\* non-attachment text/plain part whenever there is one, empty or not; from
\* its first non-attachment text/html part when there is no such plain part;
\* and is empty when there is neither.
C13_FirstPlainPartAlways ==
    (at = "returned" /\ mail.multipart)
        => body = IF FirstPart("text/plain") # << >>
                  THEN FromPlain(FirstPart("text/plain")[1])
                  ELSE IF FirstPart("text/html") # << >>
                       THEN FromHtml(FirstPart("text/html")[1])
                       ELSE << >>

\* C13, amended: the body of a multipart message comes from its first
\* non-attachment text/plain part when that part has content; otherwise from
\* its first non-attachment text/html part when that part has content;
\* otherwise it is empty.  Later parts of either type are never used.
C13_FirstPlainPartWithContent ==
    (at = "returned" /\ mail.multipart)
        => LET plain == FirstPart("text/plain")
               html == FirstPart("text/html")
           IN  body = IF plain # << >> /\ plain[1] # << >>
                      THEN FromPlain(plain[1])
                      ELSE IF html # << >> /\ html[1] # << >>
                           THEN FromHtml(html[1])
                           ELSE << >>

\* A multipart message whose first plain part is empty and whose body was
\* taken from its HTML part.
C13_Witness ==
    /\ at = "returned"
    /\ mail.multipart
    /\ FirstPart("text/plain") = << << >> >>
    /\ FirstPart("text/html") # << >>
    /\ body # << >>

\* C15 as stated: every write of two overlapping runs stores a watermark at
\* least as large as the one the file held just before that write.
C15_WriteNeverLowersRecord ==
    [][\A p \in Procs :
           WriteIn(p) => Watermark(record') >= Watermark(record)]_vars

\* C15, amended: every write of two overlapping runs stores a watermark at
\* least as large as the one the writing run loaded.
C15_WriteNeverBelowLoaded ==
    [][\A p \in Procs :
           WriteIn(p) => Watermark(record') >= run[p].last_uid]_vars

\* A run has written while the other one, between its search and its write,
\* holds the lower watermark it loaded before.
C15_Witness ==
    \E p, q \in Procs :
        /\ p # q
        /\ run[p].pc = "idle"
        /\ run[q].pc = "scanned"
        /\ run[q].uids # << >>
        /\ Watermark(record) > run[q].last_uid
        /\ Watermark(record) > new_last_uid(run[q].max_uid_seen, run[q].uids)

=============================================================================
